---- MODULE Spec2Model ----
(***************************************************************************)
(* Model of zeijemol/views/triplanar.py: the two BrainBrowser ajax         *)
(* handlers (get_brainbrowser_image, get_encoded_brainbrowser_image), the  *)
(* triplanar stack viewer (TriplanarStackViewer.call) and its ajax         *)
(* callback get_b64_images.  Spec runs one BrainBrowser request, StackSpec *)
(* one stack request, PairSpec two concurrent BrainBrowser requests on one *)
(* file, step by step.                                                     *)
(*                                                                         *)
(* A request is drawn in Init (the form and the file it names); one action *)
(* per handler runs the whole handler on it and records what the handler   *)
(* returned or raised together with the handler's local variables at that  *)
(* point.  The handlers keep no state between requests.                    *)
(*                                                                         *)
(* Arrays are numpy arrays: a shape and the elements in row-major (C)      *)
(* order.  Voxel arrays are of a fixed-width integer dtype, whose          *)
(* arithmetic wraps as numpy's does, or of dtype float32, whose arithmetic *)
(* rounds to 24 significant bits.  A float is kept as a quotient n/d (or   *)
(* NaN): a float32 is exactly n/d; a float64 computed from integer voxels  *)
(* is the double nearest to n/d, whose truncation is that of n/d for the   *)
(* magnitudes drawn here.                                                  *)
(***************************************************************************)
EXTENDS Integers, Sequences, FiniteSets, TLC

VARIABLES
    form,          \* self._cw.form of the request, with the handler it is routed to
    im,            \* the image file named by form.imagefile (header, voxels, readers)
    pc,            \* "pending", "returned" or "raised"
    exc,           \* the exception that left the handler, "none" without one
    reads,         \* the readers tried to get the voxel data, in order
    header,        \* local 'header' when the handler ended
    fdata,         \* the float array (data - min) * top / (max - min)
    data,          \* local 'data' right after the cast to the unsigned type
    encoded_data,  \* local 'encoded_data' when the handler ended
    im_info,       \* the value returned, NoValue when nothing was returned
    w,             \* the output stream of the view: what self.w wrote, in order
    shapes,        \* local 'shapes' of the stack viewer when it ended
    nb_slices,     \* local 'nb_slices' of the stack viewer when it ended
    opened,        \* the paths the stack viewer opened with Image.open, in order
    handles,       \* the opening and closing of image files by the stack viewer, in order
    output,        \* the value get_b64_images returned, NoValue before
    reqs           \* two concurrent requests on one file: positions, locals, outcomes

vars == <<form, im, pc, exc, reads, header, fdata, data, encoded_data, im_info,
          w, shapes, nb_slices, opened, handles, output, reqs>>

\* ------------------------------------------------------------------ bounds

\* Largest length of one axis of an image.
MaxAxis == 2

\* Largest number of files listed for one orientation.
MaxFiles == 2

\* ---------------------------------------------------------------- numbers

\* No value: the variable is unbound, or nothing was returned.
NoValue == [novalue |-> TRUE]

\* A float64 is [n, d], standing for n / d, or NaN.
NaN == [nan |-> TRUE]
IsNaN(f) == "nan" \in DOMAIN f

Abs(x) == IF x < 0 THEN -x ELSE x

RECURSIVE Pow2(_)
Pow2(b) == IF b = 0 THEN 1 ELSE 2 * Pow2(b - 1)

\* numpy integer dtypes of the voxel arrays drawn here: bit width and signedness.
DTypeBits == [uint8 |-> 8, int8 |-> 8, int16 |-> 16, uint16 |-> 16]
DTypeSigned == [uint8 |-> FALSE, int8 |-> TRUE, int16 |-> TRUE, uint16 |-> FALSE]

IsFloat(dt) == dt = "float32"

\* Significant bits of a float32.
Float32Bits == 24

\* The number of bits of x > 0.
RECURSIVE BitLen(_)
BitLen(x) == IF x = 0 THEN 0 ELSE 1 + BitLen(x \div 2)

\* The float32 nearest to the integer x (round half to even).
RoundInt32(x) ==
    LET a == Abs(x)
        k == BitLen(a) - Float32Bits
    IN  IF k <= 0 THEN x
        ELSE LET u == Pow2(k)
                 q == a \div u
                 r == a % u
                 up == IF 2 * r > u \/ (2 * r = u /\ q % 2 = 1) THEN 1 ELSE 0
             IN  (IF x < 0 THEN -1 ELSE 1) * (q + up) * u

\* f more bits of the quotient r / b (r < b): the bits and the remainder left.
RECURSIVE FracBits(_, _, _, _)
FracBits(r, b, f, acc) ==
    IF f = 0 THEN [bits |-> acc, r |-> r]
    ELSE IF 2 * r >= b THEN FracBits(2 * r - b, b, f - 1, 2 * acc + 1)
    ELSE FracBits(2 * r, b, f - 1, 2 * acc)

\* The number of leading zero bits of the fraction r / b (0 < r < b), plus 1.
RECURSIVE LeadShift(_, _)
LeadShift(r, b) == IF r >= b THEN 0 ELSE 1 + LeadShift(2 * r, b)

\* The float32 quotient x / y of two integer-valued float32 (y # 0): the exact
\* quotient rounded to 24 significant bits, half to even, as [n, d] with d a
\* power of two.
Div32(x, y) ==
    LET a == Abs(x)
        b == Abs(y)
        sign == IF (x < 0) # (y < 0) THEN -1 ELSE 1
        q0 == a \div b
        k == BitLen(q0) - Float32Bits
        \* the integer part has 24 bits or fewer: f bits of the fraction follow
        f == IF q0 > 0 THEN -k ELSE Float32Bits - 1 + LeadShift(a, b)
        fr == FracBits(a % b, b, f, 0)
        mant == q0 * Pow2(f) + fr.bits
        up == IF 2 * fr.r > b \/ (2 * fr.r = b /\ mant % 2 = 1) THEN 1 ELSE 0
        \* the integer part has more than 24 bits: its low k bits are rounded off
        u == Pow2(k)
        hi == q0 \div u
        lo == q0 % u
        upi == IF 2 * lo > u \/ (2 * lo = u /\ (a % b # 0 \/ hi % 2 = 1))
               THEN 1 ELSE 0
    IN  IF a = 0 THEN [n |-> 0, d |-> 1]
        ELSE IF k > 0 THEN [n |-> sign * (hi + upi) * u, d |-> 1]
        ELSE [n |-> sign * (mant + up), d |-> Pow2(f)]

\* The value an operation of dtype dt stores for the exact result x: two's
\* complement wrap-around for the integer dtypes; the differences of the
\* float32 voxels drawn here are exact.
Wrap(dt, x) ==
    IF IsFloat(dt) THEN x
    ELSE LET m == Pow2(DTypeBits[dt])
         IN  IF DTypeSigned[dt]
             THEN ((x + m \div 2) % m) - m \div 2
             ELSE x % m

\* Largest value of an unsigned dtype.
TopOf(dt) == Pow2(DTypeBits[dt]) - 1

\* Truncation toward zero of n / d (d # 0): the C conversion of a double to an
\* integer type.
TruncQuot(n, d) ==
    LET q == Abs(n) \div Abs(d)
    IN  IF (n < 0) # (d < 0) THEN -q ELSE q

\* ----------------------------------------------------------------- arrays

RECURSIVE Prod(_)
Prod(s) == IF s = <<>> THEN 1 ELSE Head(s) * Prod(Tail(s))

\* Row-major offset (0-based) of the 0-based multi-index idx in an array of shape s.
RECURSIVE Ravel(_, _)
Ravel(idx, s) ==
    IF s = <<>> THEN 0
    ELSE idx[1] * Prod(Tail(s)) + Ravel(Tail(idx), Tail(s))

\* The 0-based multi-index of row-major offset p in an array of shape s.
RECURSIVE Unravel(_, _)
Unravel(p, s) ==
    IF s = <<>> THEN <<>>
    ELSE <<p \div Prod(Tail(s))>> \o Unravel(p % Prod(Tail(s)), Tail(s))

Size(a) == Len(a.flat)

\* data.min() and data.max() of a non-empty array's elements.
SeqMin(s) == CHOOSE m \in {s[i] : i \in 1..Len(s)} : \A i \in 1..Len(s) : m <= s[i]

SeqMax(s) == CHOOSE m \in {s[i] : i \in 1..Len(s)} : \A i \in 1..Len(s) : m >= s[i]

\* numpy.transpose(a, axes): axes[k] (0-based, as in the source) is the axis of a
\* that becomes axis k of the result.
Transpose(a, axes) ==
    LET n == Len(a.shape)
        newshape == [k \in 1..n |-> a.shape[axes[k] + 1]]
        Src(j) == [i \in 1..n |-> j[CHOOSE k \in 1..n : axes[k] + 1 = i]]
    IN  [a EXCEPT !.shape = newshape,
                  !.flat = [p \in 1..Len(a.flat) |->
                               a.flat[Ravel(Src(Unravel(p - 1, newshape)), a.shape) + 1]]]

\* a[index]: the sub-array at 0-based position index of the leading axis.
Slice(a, index) ==
    LET sub == Tail(a.shape)
        n == Prod(sub)
    IN  [a EXCEPT !.shape = sub,
                  !.flat = SubSeq(a.flat, index * n + 1, (index + 1) * n)]

\* a.flatten().tolist()
FlattenToList(a) == a.flat

\* ----------------------------------------------------------------- inputs

\* dim[0] of the headers drawn: the two supported ranks, one below, one above.
Ranks == {2, 3, 4, 5}

\* The shapes of rank r.  A rank above 4 is a vector-valued image, which NIfTI
\* stores as (X, Y, Z, 1, U).
ShapesOf(r) ==
    {s \in [1..r -> 1..MaxAxis] : r > 4 => s[4] = 1}

AllShapes == UNION {ShapesOf(r) : r \in Ranks}

\* Voxel contents: the values below are laid out cyclically over the array.
\* A one-voxel array, and the 'uniform' palette, give constant volumes.  The
\* float32 voxels are integer-valued.
Palettes ==
    { [dtype |-> "uint8", values |-> <<0, 1, 4, 2, 3>>],
      [dtype |-> "uint8", values |-> <<5>>],
      [dtype |-> "uint8", values |-> <<17, 255, 0>>],
      [dtype |-> "int8",  values |-> <<-128, -127, -100, 100>>],
      [dtype |-> "int16", values |-> <<0, 100, 4095, 7, 1500>>],
      [dtype |-> "int16", values |-> <<-1024, 0, 3071, 40>>],
      [dtype |-> "float32", values |-> <<0, 259, 100, 7>>] }

VoxelArray(shape, pal) ==
    [shape |-> shape,
     dtype |-> pal.dtype,
     flat  |-> [p \in 1..Prod(shape) |->
                   pal.values[((p - 1) % Len(pal.values)) + 1]]]

\* Geometry fields of the NIfTI header (numbers stand for the float32 fields).
Geoms ==
    { [qoffset_x |-> -90, qoffset_y |-> -126, qoffset_z |-> -72,
       pixdim |-> <<1, 2, 2, 2, 3, 0, 0, 0>>,
       srow_x |-> <<2, 0, 0, -90>>, srow_y |-> <<0, 2, 0, -126>>,
       srow_z |-> <<0, 0, 2, -72>>],
      [qoffset_x |-> 96, qoffset_y |-> 0, qoffset_z |-> -40,
       pixdim |-> <<-1, 3, 1, 4, 1, 0, 0, 0>>,
       srow_x |-> <<-3, 0, 0, 96>>, srow_y |-> <<0, 0, 1, 0>>,
       srow_z |-> <<0, 4, 0, -40>>] }

\* The header nibabel gives for an image of this shape: dim[0] is the rank,
\* dim[1..rank] the axis lengths, the other entries 1.  dim and pixdim are
\* indexed from 0 as in the source.
NiftiHeader(shape, g) ==
    [dim |-> [i \in 0..7 |-> IF i = 0 THEN Len(shape)
                             ELSE IF i <= Len(shape) THEN shape[i] ELSE 1],
     pixdim |-> [i \in 0..7 |-> g.pixdim[i + 1]],
     qoffset_x |-> g.qoffset_x, qoffset_y |-> g.qoffset_y, qoffset_z |-> g.qoffset_z,
     srow_x |-> g.srow_x, srow_y |-> g.srow_y, srow_z |-> g.srow_z]

\* Whether nibabel's get_data() and the legacy nifti reader can extract the voxels.
Readers ==
    { [primary_ok |-> TRUE,  legacy_ok |-> TRUE],
      [primary_ok |-> FALSE, legacy_ok |-> TRUE],
      [primary_ok |-> FALSE, legacy_ok |-> FALSE] }

Images ==
    { [hdr |-> NiftiHeader(s, g), voxels |-> VoxelArray(s, pal),
       primary_ok |-> rd.primary_ok, legacy_ok |-> rd.legacy_ok] :
      s \in AllShapes, pal \in Palettes, g \in Geoms, rd \in Readers }

\* The posted forms.  dquality is posted as a decimal string (its digits here).
ImageForms ==
    { [fname |-> "get_brainbrowser_image", imagefile |-> "image.nii"] }
    \cup
    { [fname |-> "get_encoded_brainbrowser_image", imagefile |-> "image.nii",
       dquality |-> q] : q \in {<<5, 0>>, <<9>>} }

\* What a C double -> unsigned integer conversion leaves when the value is NaN or
\* out of the target's range (undefined in C): the low bits of the wider
\* conversion, a saturated value, or the all-ones "indefinite" value.
Builds == {"wrap", "saturate", "allones"}

\* ------------------------------------------------- intensity rescaling

\* The 16-bit and 8-bit output ranges of the two handlers.
RawTop == 65535
EncodedTop == 255

\* data - data.min(): an array of the input's dtype (numpy wraps on overflow).
ShiftBy(a, lo) == [p \in 1..Len(a.flat) |-> Wrap(a.dtype, a.flat[p] - lo)]

Shifted(a) == ShiftBy(a, SeqMin(a.flat))

\* data.max() - data.min(): a numpy scalar of the input's dtype.
Span(a) == Wrap(a.dtype, SeqMax(a.flat) - SeqMin(a.flat))

\* (data - data.min()) * top / (data.max() - data.min()): a float64 array.  No
\* guard precedes the division: a zero span divides 0. by 0 and gives NaN (the
\* shifted values are all 0 then) under numpy's default error state.
\* An integer array times the Python float top is a float64 array, a float32
\* array stays float32 and the product is rounded; so for the division.
Divide(sh, top, d, dt) ==
    [p \in 1..Len(sh) |->
        IF d = 0 THEN NaN
        ELSE IF IsFloat(dt) THEN Div32(RoundInt32(sh[p] * top), d)
        ELSE [n |-> sh[p] * top, d |-> d]]

Scaled(a, top) ==
    [shape |-> a.shape, dtype |-> IF IsFloat(a.dtype) THEN a.dtype ELSE "float64",
     flat |-> Divide(Shifted(a), top, Span(a), a.dtype)]

\* The C conversion of one float64 to the unsigned type dt: truncation toward
\* zero when the truncated value fits, build-dependent otherwise.
CastValue(f, dt, build) ==
    IF IsNaN(f)
    THEN (IF build = "allones" THEN TopOf(dt) ELSE 0)
    ELSE LET t == TruncQuot(f.n, f.d)
         IN  IF 0 <= t /\ t <= TopOf(dt) THEN t
             ELSE CASE build = "wrap" -> t % (TopOf(dt) + 1)
                    [] build = "saturate" -> (IF t < 0 THEN 0 ELSE TopOf(dt))
                    [] OTHER -> TopOf(dt)

\* numpy.cast[dt](f)
Cast(f, dt, build) ==
    [shape |-> f.shape, dtype |-> dt,
     flat |-> [p \in 1..Len(f.flat) |-> CastValue(f.flat[p], dt, build)]]

\* ------------------------------------------------------- geometry header

\* One spatial entry of the BrainBrowser header; axis k is 1, 2 or 3.
SpaceAxis(h, k, qoffset, srow) ==
    [start |-> qoffset,
     space_length |-> h.dim[k],
     step |-> h.pixdim[k],
     direction_cosines |-> SubSeq(srow, 1, 3)]

order == <<"time", "xspace", "yspace", "zspace">>

RawHeader3D(h) ==
    [order |-> Tail(order),
     xspace |-> SpaceAxis(h, 1, h.qoffset_x, h.srow_x),
     yspace |-> SpaceAxis(h, 2, h.qoffset_y, h.srow_y),
     zspace |-> SpaceAxis(h, 3, h.qoffset_z, h.srow_z)]

RawHeader4D(h) ==
    [order |-> order,
     xspace |-> SpaceAxis(h, 1, h.qoffset_x, h.srow_x),
     yspace |-> SpaceAxis(h, 2, h.qoffset_y, h.srow_y),
     zspace |-> SpaceAxis(h, 3, h.qoffset_z, h.srow_z),
     time |-> [start |-> 0, space_length |-> h.dim[4]]]

\* Mutant: the 3D header keeps the whole order list.
EncodedHeader3D_FullOrder(h) ==
    [order |-> order,
     xspace |-> SpaceAxis(h, 1, h.qoffset_x, h.srow_x),
     yspace |-> SpaceAxis(h, 2, h.qoffset_y, h.srow_y),
     zspace |-> SpaceAxis(h, 3, h.qoffset_z, h.srow_z)]

EncodedHeader3D(h) ==
    [order |-> Tail(order),
     xspace |-> SpaceAxis(h, 1, h.qoffset_x, h.srow_x),
     yspace |-> SpaceAxis(h, 2, h.qoffset_y, h.srow_y),
     zspace |-> SpaceAxis(h, 3, h.qoffset_z, h.srow_z)]

EncodedHeader4D(h) ==
    [order |-> order,
     xspace |-> SpaceAxis(h, 1, h.qoffset_x, h.srow_x),
     yspace |-> SpaceAxis(h, 2, h.qoffset_y, h.srow_y),
     zspace |-> SpaceAxis(h, 3, h.qoffset_z, h.srow_z),
     time |-> [start |-> 0, space_length |-> h.dim[4]]]

\* json.dumps(obj): the JSON text of obj, kept as the object it encodes.
JsonDumps(obj) == [json |-> obj]

UnsupportedError == "Exception: Only 3D or 3D + t images are currently supported!"

\* ------------------------------------------------ get_brainbrowser_image

\* Mutant: the legacy reader is called whether or not nibabel gave the data.
RawRead_LegacyAlways(image) ==
    IF image.legacy_ok
    THEN [exc |-> "none", reads |-> <<"nibabel", "nifti">>, data |-> image.voxels]
    ELSE [exc |-> "nifti: read error", reads |-> <<"nibabel", "nifti">>,
          data |-> NoValue]

\* Lines 1021-1031: the voxels from nibabel, or after any failure of get_data()
\* from the legacy nifti reader, whose own failure is not caught.
RawRead(image) ==
    IF image.primary_ok
    THEN [exc |-> "none", reads |-> <<"nibabel">>, data |-> image.voxels]
    ELSE IF image.legacy_ok
    THEN [exc |-> "none", reads |-> <<"nibabel", "nifti">>, data |-> image.voxels]
    ELSE [exc |-> "nifti: read error", reads |-> <<"nibabel", "nifti">>,
          data |-> NoValue]

\* Mutant: the 4D branch leaves the axes as stored.
RawTimeFirst_Skip(a) == a

\* The 4D branch moves the time axis in front.
RawTimeFirst(a) == Transpose(a, <<3, 0, 1, 2>>)

\* Lines 1082-1083: any other dim[0] raises; got holds the locals so far.
RawUnsupported(got) == [got EXCEPT !.exc = UnsupportedError]

\* Lines 1018-1031: the locals once the image is loaded; data holds the voxels,
\* or nothing when both readers failed and the exception leaves the handler.
RawLoaded(image) ==
    LET rd == RawRead(image)
    IN  [pc |-> "raised", exc |-> rd.exc, reads |-> rd.reads,
         header |-> image.hdr, fdata |-> NoValue, data |-> rd.data,
         encoded_data |-> <<>>, im_info |-> NoValue]

\* Lines 1034-1035: data is rebound to the rescaled buffer.
RawRescaled(l, build) ==
    LET f == Scaled(l.data, RawTop)
    IN  [l EXCEPT !.fdata = f, !.data = Cast(f, "uint16", build)]

\* Lines 1038-1091: the geometry and the returned value.
RawFinish(image, got) ==
    LET d == got.data
        dim == image.hdr.dim
    IN  IF dim[0] = 3
        THEN [got EXCEPT !.pc = "returned",
                         !.header = RawHeader3D(image.hdr),
                         !.im_info = [header |-> JsonDumps(RawHeader3D(image.hdr)),
                                      data |-> FlattenToList(d)]]
        ELSE IF dim[0] = 4
        THEN [got EXCEPT !.pc = "returned",
                         !.header = RawHeader4D(image.hdr),
                         !.im_info = [header |-> JsonDumps(RawHeader4D(image.hdr)),
                                      data |-> FlattenToList(RawTimeFirst(d))]]
        ELSE RawUnsupported(got)

\* The whole handler: the locals it ends with and what it returns or raises.
RawRun(image, build) ==
    LET l == RawLoaded(image)
    IN  IF l.exc # "none" THEN l
        ELSE RawFinish(image, RawRescaled(l, build))

\* ---------------------------------------- get_encoded_brainbrowser_image

\* The names bound in the module's namespace: its imports (lines 11-22) and its
\* top-level classes and functions.
ModuleGlobals ==
    {"base64", "json", "os", "nibabel", "numpy", "Image",
     "_", "View", "ajaxfunc", "authenticated_user",
     "TriplanarStackViewer", "get_b64_images", "TriplanarImageViewer",
     "get_encoded_brainbrowser_image", "get_brainbrowser_image"}

\* int(s) for a string of decimal digits.
RECURSIVE ParseInt(_)
ParseInt(digits) ==
    IF digits = <<>> THEN 0
    ELSE 10 * ParseInt(SubSeq(digits, 1, Len(digits) - 1)) + digits[Len(digits)]

\* img.save(openfile, format=..., quality=...) followed by getvalue(): the bytes
\* of the compressed image, kept as what determines them.
SaveImage(slicedata, format, quality) ==
    [format |-> format, quality |-> quality,
     shape |-> slicedata.shape, pixels |-> slicedata.flat]

\* base64.b64encode(contents)
B64Encode(contents) == [b64 |-> contents]

\* One pass through the body of an encoding loop (lines 953-959 and 990-996).
\* StringIO and PIL are looked up in the module's namespace before anything is
\* encoded.
EncodeSlice(slicedata, format, quality) ==
    IF "StringIO" \notin ModuleGlobals
    THEN [exc |-> "NameError: global name 'StringIO' is not defined"]
    ELSE IF "PIL" \notin ModuleGlobals
    THEN [exc |-> "NameError: global name 'PIL' is not defined"]
    ELSE [exc |-> "none",
          b64 |-> B64Encode(SaveImage(slicedata, format, quality))]

\* The slices in the order the loops visit them.
Slices3D(a) == [i \in 1..a.shape[1] |-> Slice(a, i - 1)]

EncodedTimeFirst(a) == Transpose(a, <<3, 0, 1, 2>>)

\* for timepoint in range(data.shape[0]): for index in range(data.shape[1])
Slices4D(a) ==
    LET t == EncodedTimeFirst(a)
        T == t.shape[1]
        S == t.shape[2]
    IN  [p \in 1..(T * S) |-> Slice(Slice(t, (p - 1) \div S), (p - 1) % S)]

\* The loop: encoded_data grows by one string per slice until a pass raises.
RECURSIVE EncodeLoop(_, _, _, _, _)
EncodeLoop(slices, k, format, quality, acc) ==
    IF k > Len(slices) THEN [exc |-> "none", encoded_data |-> acc]
    ELSE LET r == EncodeSlice(slices[k], format, quality)
         IN  IF r.exc # "none" THEN [exc |-> r.exc, encoded_data |-> acc]
             ELSE EncodeLoop(slices, k + 1, format, quality, Append(acc, r.b64))

\* The 3D loop passes quality=dquality; the 4D loop passes no quality, and PIL
\* uses its default.
Encode3D(a, dquality) == EncodeLoop(Slices3D(a), 1, "JPEG", dquality, <<>>)
Encode4D(a, dquality) == EncodeLoop(Slices4D(a), 1, "JPEG", "default", <<>>)

\* Mutant: no else branch, the handler goes on to format its output.
EncodedUnsupported_FallThrough(got) ==
    [got EXCEPT !.pc = "returned",
                !.im_info = [header |-> JsonDumps(got.header),
                             data |-> got.encoded_data]]

\* Lines 997-998: any other dim[0] raises; got holds the locals so far.
EncodedUnsupported(got) == [got EXCEPT !.exc = UnsupportedError]

\* Lines 917-919: the locals once the image is loaded.  get_data() is not
\* guarded here: when it fails the exception leaves the handler.
EncodedLoaded(image) ==
    [pc |-> "raised",
     exc |-> IF image.primary_ok THEN "none" ELSE "nibabel: read error",
     reads |-> <<"nibabel">>,
     header |-> image.hdr, fdata |-> NoValue,
     data |-> IF image.primary_ok THEN image.voxels ELSE NoValue,
     encoded_data |-> <<>>, im_info |-> NoValue]

\* Lines 922-923: data is rebound to the rescaled buffer.
EncodedRescaled(l, build) ==
    LET f == Scaled(l.data, EncodedTop)
    IN  [l EXCEPT !.fdata = f, !.data = Cast(f, "uint8", build)]

\* Lines 926-1006: the geometry, the encoded slices and the returned value.
EncodedFinish(image, dquality, got) ==
    LET d == got.data
        dim == image.hdr.dim
        Finish(hd, enc) ==
            IF enc.exc # "none"
            THEN [got EXCEPT !.exc = enc.exc, !.header = hd,
                             !.encoded_data = enc.encoded_data]
            ELSE [got EXCEPT !.pc = "returned", !.header = hd,
                             !.encoded_data = enc.encoded_data,
                             !.im_info = [header |-> JsonDumps(hd),
                                          data |-> enc.encoded_data]]
    IN  IF dim[0] = 3
        THEN Finish(EncodedHeader3D(image.hdr), Encode3D(d, dquality))
        ELSE IF dim[0] = 4
        THEN Finish(EncodedHeader4D(image.hdr), Encode4D(d, dquality))
        ELSE EncodedUnsupported(got)

\* The whole handler.
EncodedRun(image, dquality, build) ==
    LET l == EncodedLoaded(image)
    IN  IF l.exc # "none" THEN l
        ELSE EncodedFinish(image, dquality, EncodedRescaled(l, build))

\* ---------------------------------------------------------- the requests

Init ==
    /\ form \in ImageForms
    /\ im \in Images
    /\ pc = "pending"
    /\ exc = "none"
    /\ reads = <<>>
    /\ header = NoValue
    /\ fdata = NoValue
    /\ data = NoValue
    /\ encoded_data = <<>>
    /\ im_info = NoValue
    /\ w = <<>>
    /\ shapes = <<>>
    /\ nb_slices = <<>>
    /\ opened = <<>>
    /\ handles = <<>>
    /\ output = NoValue
    /\ reqs = NoValue

Finished(r) ==
    /\ pc' = r.pc
    /\ exc' = r.exc
    /\ reads' = r.reads
    /\ header' = r.header
    /\ fdata' = r.fdata
    /\ data' = r.data
    /\ encoded_data' = r.encoded_data
    /\ im_info' = r.im_info

GetBrainbrowserImage ==
    /\ pc = "pending"
    /\ form.fname = "get_brainbrowser_image"
    /\ \E build \in Builds : Finished(RawRun(im, build))
    /\ UNCHANGED <<form, im, w, shapes, nb_slices, opened, handles, output, reqs>>

GetEncodedBrainbrowserImage ==
    /\ pc = "pending"
    /\ form.fname = "get_encoded_brainbrowser_image"
    /\ \E build \in Builds :
           Finished(EncodedRun(im, ParseInt(form.dquality), build))
    /\ UNCHANGED <<form, im, w, shapes, nb_slices, opened, handles, output, reqs>>

Next == GetBrainbrowserImage \/ GetEncodedBrainbrowserImage

Spec == Init /\ [][Next]_vars

\* ------------------------------- two concurrent requests on one file

\* Two requests for the same handler with the same form on the same file, each
\* run by its own thread: a thread runs its handler in three steps (load,
\* rescale, build and return) and the steps of the two interleave freely.  The
\* handlers bind local names only, so each request has its own locals; the
\* file is only read.

\* The files and forms of the concurrent requests: images of rank 2 to 4 with
\* the first geometry, and one form per handler.
PairPalettes ==
    {pal \in Palettes : pal.dtype = "int8" \/ Len(pal.values) \in {1, 3}}

PairImages ==
    {i \in Images :
        /\ i.hdr.dim[0] <= 4
        /\ i.hdr.qoffset_x = -90
        /\ \E pal \in PairPalettes : i.voxels = VoxelArray(i.voxels.shape, pal)}

PairForms == {f \in ImageForms : "dquality" \in DOMAIN f => f.dquality = <<9>>}

\* What a request ends with: returned or raised, and the value returned.
Outcome(l) == [pc |-> l.pc, exc |-> l.exc, im_info |-> l.im_info]

\* Mutant: the locals of every request are kept in one place.
Slot_Shared(r) == 1

\* Where the locals of request r are kept: in the frame of its own call.
Slot(r) == r

PairInit ==
    /\ form \in PairForms
    /\ im \in PairImages
    /\ \E build \in Builds :
           reqs = [build |-> build,
                   at |-> <<"start", "start">>,
                   loc |-> <<NoValue, NoValue>>,
                   ret |-> <<NoValue, NoValue>>,
                   overlapped |-> FALSE]
    /\ pc = "pending"
    /\ exc = "none"
    /\ reads = <<>>
    /\ header = NoValue
    /\ fdata = NoValue
    /\ data = NoValue
    /\ encoded_data = <<>>
    /\ im_info = NoValue
    /\ w = <<>>
    /\ shapes = <<>>
    /\ nb_slices = <<>>
    /\ opened = <<>>
    /\ handles = <<>>
    /\ output = NoValue

\* Request r moves to position to, with locals l, and ends with ret when it
\* is done.
PairStep(r, to, l, ret) ==
    /\ reqs' = [reqs EXCEPT
                  !.at[r] = to,
                  !.loc[Slot(r)] = l,
                  !.ret[r] = ret,
                  !.overlapped =
                      @ \/ (to \in {"loaded", "rescaled"}
                            /\ reqs.at[3 - r] \in {"loaded", "rescaled"})]
    /\ UNCHANGED <<form, im, pc, exc, reads, header, fdata, data, encoded_data,
                   im_info, w, shapes, nb_slices, opened, handles, output>>

RawMode == form.fname = "get_brainbrowser_image"

\* Lines 1018-1031 and 911-919: the request loads the file.
PairLoad(r) ==
    /\ reqs.at[r] = "start"
    /\ LET l == IF RawMode THEN RawLoaded(im) ELSE EncodedLoaded(im)
       IN  IF l.exc # "none"
           THEN PairStep(r, "done", l, Outcome(l))
           ELSE PairStep(r, "loaded", l, NoValue)

\* Lines 1034-1035 and 922-923: the request rescales its data.
PairRescale(r) ==
    /\ reqs.at[r] = "loaded"
    /\ LET l == reqs.loc[Slot(r)]
       IN  PairStep(r, "rescaled",
                    IF RawMode THEN RawRescaled(l, reqs.build)
                    ELSE EncodedRescaled(l, reqs.build),
                    NoValue)

\* Lines 1038-1091 and 926-1006: the request builds its answer and ends.
PairFinish(r) ==
    /\ reqs.at[r] = "rescaled"
    /\ LET l == reqs.loc[Slot(r)]
           out == IF RawMode THEN RawFinish(im, l)
                  ELSE EncodedFinish(im, ParseInt(form.dquality), l)
       IN  PairStep(r, "done", out, Outcome(out))

PairNext == \E r \in 1..2 : PairLoad(r) \/ PairRescale(r) \/ PairFinish(r)

PairSpec == PairInit /\ [][PairNext]_vars

\* ------------------------------------------- TriplanarStackViewer.call

\* The image files on disk and their pixel sizes (width, height).
Files == [a_png |-> <<64, 64>>, b_png |-> <<32, 48>>]

Paths == DOMAIN Files

PathLists == UNION {[1..n -> Paths] : n \in 0..MaxFiles}

\* The keys a posted file_data may carry: the three orientations and one
\* unrecognised name.
StackKeys == {"sagittal", "coronal", "axial", "oblique"}

\* The key orders of dictionaries with up to three entries (the viewer shows
\* one, two or three orientations).  A dictionary is kept as its items in
\* iteration order.
KeyOrders ==
    {ks \in UNION {[1..n -> StackKeys] : n \in 0..3} :
        \A i, j \in 1..Len(ks) : i # j => ks[i] # ks[j]}

\* The dictionary with keys ks (in iteration order) and lists ls.
FileData(ks, ls) == [k \in 1..Len(ks) |-> [orient |-> ks[k], paths |-> ls[k]]]

SnapEids == {"1507", "88"}

StackForm(e, fd) ==
    [fname |-> "triplanar-stack-viewer", snap_eid |-> e,
     file_data |-> fd, data_type |-> "PNG"]

error_message == "Triplanar view not responding. Please contact the service administrator specifying the the snap code '{0}'."

orientations == <<"sagittal", "coronal", "axial">>

Lower == [PNG |-> "png", JPG |-> "jpg", png |-> "png", jpg |-> "jpg"]

\* One piece of the output stream.
Piece(kind, arg) == [kind |-> kind, arg |-> arg]

\* Lines 70-81: the script and stylesheet references.
Resources ==
    << Piece("script-src", <<"https://ajax.googleapis.com/ajax/libs/jquery/1.12.0/jquery.min.js">>),
       Piece("script-src", <<"data_url", "triview/js/simple-slider.min.js">>),
       Piece("script-src", <<"data_url", "triview/js/triview.js">>),
       Piece("stylesheet", <<"data_url", "triview/css/simple-slider-volume.css">>),
       Piece("stylesheet", <<"data_url", "triview/css/triview.css">>) >>

\* Mutant: the message is written as it is, not formatted with the snap eid.
ErrorOutput_Unformatted(snap_eid) ==
    << Piece("h1", <<error_message, "{0}">>),
       Piece("script-open", <<>>),
       Piece("js", <<"disableTriViewBtn();">>),
       Piece("script-close", <<>>) >>

\* Lines 90-93 and 104-107: the message formatted with the snap eid, then the
\* script that disables the buttons.
ErrorOutput(snap_eid) ==
    << Piece("h1", <<error_message, snap_eid>>),
       Piece("script-open", <<>>),
       Piece("js", <<"disableTriViewBtn();">>),
       Piece("script-close", <<>>) >>

\* Mutant: the orientation check accepts any key.
InOrientations_Any(orient) == TRUE

InOrientations(orient) == \E i \in 1..Len(orientations) : orientations[i] = orient

\* Mutant: a different size is never noticed.
SizeDiffers_Never(stack_size, size) == FALSE

\* Line 103: stack_size != open_image.size
SizeDiffers(stack_size, size) == stack_size # size

\* Mutant: the reference size of the previous orientation is kept.
ResetStackSize_Keep(prev) == prev

\* Line 96: stack_size = None at the start of each orientation.  An unset
\* stack_size (None) is <<>>; prev is the value the name held before.
ResetStackSize(prev) == <<>>

\* Mutant: the slice count is the number of files.
SliceCount_Len(paths) == Len(paths)

\* Line 97: len(file_data[orient]) - 1
SliceCount(paths) == Len(paths) - 1

\* Line 99, entering the with block: Image.open(path) opens the file.
EnterImage(st, path) ==
    [st EXCEPT !.opened = Append(@, path),
               !.handles = Append(@, [op |-> "open", path |-> path])]

\* Mutant: a return from inside the with block leaves the file open.
ExitImage_LeakOnReturn(st, path, returning) ==
    IF returning THEN st
    ELSE [st EXCEPT !.handles = Append(@, [op |-> "close", path |-> path])]

\* Line 99, leaving the with block, at its end or by the return of line 108:
\* the image's __exit__ closes the file.
ExitImage(st, path, returning) ==
    [st EXCEPT !.handles = Append(@, [op |-> "close", path |-> path])]

\* Lines 98-108: the files of one orientation are opened one after the other;
\* the first size is the reference, and a different size stops the view.
RECURSIVE CheckSizes(_, _, _, _)
CheckSizes(orient, paths, i, st) ==
    IF i > Len(paths) THEN st
    ELSE LET size == Files[paths[i]]
             st1 == EnterImage(st, paths[i])
         IN  IF st1.stack_size = <<>>
             THEN CheckSizes(orient, paths, i + 1,
                             ExitImage([st1 EXCEPT !.stack_size = size,
                                                   !.shapes = (orient :> size) @@ @],
                                       paths[i], FALSE))
             ELSE IF SizeDiffers(st1.stack_size, size)
             THEN ExitImage([st1 EXCEPT !.error = TRUE], paths[i], TRUE)
             ELSE CheckSizes(orient, paths, i + 1, ExitImage(st1, paths[i], FALSE))

\* Mutant: the loop goes on after a failed check.
Returned_Never(st) == FALSE

\* Lines 94 and 108: the view has returned.
Returned(st) == st.error

\* Lines 87-108: the loop over the items of file_data.
RECURSIVE CheckInputs(_, _, _)
CheckInputs(fd, k, st) ==
    IF k > Len(fd) THEN st
    ELSE LET orient == fd[k].orient
             paths == fd[k].paths
         IN  IF ~InOrientations(orient)
             THEN [st EXCEPT !.error = TRUE]
             ELSE LET st1 == [st EXCEPT
                                !.stack_size = ResetStackSize(@),
                                !.nb_slices = (orient :> SliceCount(paths)) @@ @]
                      r == CheckSizes(orient, paths, 1, st1)
                  IN  IF Returned(r) THEN r ELSE CheckInputs(fd, k + 1, r)

\* The keys of a dictionary filled while iterating file_data, in that order.
RECURSIVE ItemsOrder(_, _)
ItemsOrder(fd, d) ==
    IF fd = <<>> THEN <<>>
    ELSE (IF Head(fd).orient \in DOMAIN d THEN <<Head(fd).orient>> ELSE <<>>)
         \o ItemsOrder(Tail(fd), d)

Keys(fd) == [k \in 1..Len(fd) |-> fd[k].orient]

\* Lines 130-144: the container of one orientation.
Container(orient, shape, nb) ==
    << Piece("subdiv", <<orient>>),
       Piece("slice-bar", <<0, nb, nb \div 2>>),
       Piece("slice-bar-text", <<nb \div 2, nb>>),
       Piece("canvas", <<shape[1], shape[2]>>),
       Piece("subdiv-close", <<>>) >>

RECURSIVE Containers(_, _, _)
Containers(items, sh, nb) ==
    IF items = <<>> THEN <<>>
    ELSE Container(Head(items), sh[Head(items)], nb[Head(items)])
         \o Containers(Tail(items), sh, nb)

\* Lines 110-172: the page written when the inputs passed the checks.
Page(fd, data_type, sh, nb) ==
    << Piece("loading-msg", <<"data_url", "triview/load.gif">>),
       Piece("container", <<>>),
       Piece("brightness-bar", <<0, 200, 100>>) >>
    \o Containers(ItemsOrder(fd, sh), sh, nb)
    \o << Piece("container-close", <<>>),
          Piece("triview_data",
                << JsonDumps([dtype |-> Lower[data_type],
                              file_data |-> fd,
                              ajaxcallback |-> <<"build_url", "ajax", "get_b64_images">>,
                              orientations |-> Keys(fd),
                              brightness |-> 100,
                              shapes |-> sh,
                              nb_slices |-> nb]) >>),
          Piece("script-open", <<>>),
          Piece("js", <<"disableTriViewBtn();">>),
          Piece("js", <<"initTriViewGui();">>),
          Piece("script-close", <<>>) >>

\* The whole view.
StackRun(f) ==
    LET st == CheckInputs(f.file_data, 1,
                          [shapes |-> <<>>, nb_slices |-> <<>>, stack_size |-> <<>>,
                           opened |-> <<>>, handles |-> <<>>, error |-> FALSE])
    IN  [w |-> Resources \o
               (IF st.error THEN ErrorOutput(f.snap_eid)
                ELSE Page(f.file_data, f.data_type, st.shapes, st.nb_slices)),
         shapes |-> st.shapes, nb_slices |-> st.nb_slices, opened |-> st.opened,
         handles |-> st.handles]

\* ------------------------------------------------------ get_b64_images

\* The bytes of the image files on disk.
Contents == [a_png |-> <<137, 80, 78, 71, 1>>, b_png |-> <<137, 80, 78, 71, 2, 2>>]

\* The ajax call posts the file_data of the page.
B64Form(fd) == [fname |-> "get_b64_images", file_data |-> fd]

\* Mutant: the encoded images are put in front of the list.
EncodedImages_Reversed(fpaths) ==
    [i \in 1..Len(fpaths) |-> B64Encode(Contents[fpaths[Len(fpaths) + 1 - i]])]

\* Lines 182-186: each path is read in binary mode and encoded, in list order.
EncodedImages(fpaths) ==
    [i \in 1..Len(fpaths) |-> B64Encode(Contents[fpaths[i]])]

\* Lines 180-188: the dictionary filled while iterating file_data.items().
B64Run(fd) ==
    [orient \in {fd[k].orient : k \in 1..Len(fd)} |->
        EncodedImages(fd[CHOOSE k \in 1..Len(fd) : fd[k].orient = orient].paths)]

StackInit ==
    /\ \E e \in SnapEids, ks \in KeyOrders :
           \E ls \in [1..Len(ks) -> PathLists] :
               \/ form = StackForm(e, FileData(ks, ls))
               \/ form = B64Form(FileData(ks, ls))
    /\ im = NoValue
    /\ pc = "pending"
    /\ exc = "none"
    /\ reads = <<>>
    /\ header = NoValue
    /\ fdata = NoValue
    /\ data = NoValue
    /\ encoded_data = <<>>
    /\ im_info = NoValue
    /\ w = <<>>
    /\ shapes = <<>>
    /\ nb_slices = <<>>
    /\ opened = <<>>
    /\ handles = <<>>
    /\ output = NoValue
    /\ reqs = NoValue

call ==
    /\ pc = "pending"
    /\ form.fname = "triplanar-stack-viewer"
    /\ LET r == StackRun(form)
       IN  /\ w' = r.w
           /\ shapes' = r.shapes
           /\ nb_slices' = r.nb_slices
           /\ opened' = r.opened
           /\ handles' = r.handles
    /\ pc' = "returned"
    /\ UNCHANGED <<form, im, exc, reads, header, fdata, data, encoded_data, im_info,
                   output, reqs>>

get_b64_images ==
    /\ pc = "pending"
    /\ form.fname = "get_b64_images"
    /\ output' = B64Run(form.file_data)
    /\ pc' = "returned"
    /\ UNCHANGED <<form, im, exc, reads, header, fdata, data, encoded_data, im_info,
                   w, shapes, nb_slices, opened, handles, reqs>>

StackNext == call \/ get_b64_images

StackSpec == StackInit /\ [][StackNext]_vars

\* ======================================================== properties

Raw == form.fname = "get_brainbrowser_image"
Encoded == form.fname = "get_encoded_brainbrowser_image"
Ended == pc # "pending"
Rank == im.hdr.dim[0]

\* The handler got as far as building the BrainBrowser geometry.
GeometryBuilt == Ended /\ "order" \in DOMAIN header

\* The voxels were read and rescaled.
Rescaled == Ended /\ data # NoValue

\* The input's intensity range, in unbounded integers.
InMin == SeqMin(im.voxels.flat)
InMax == SeqMax(im.voxels.flat)
NonDegenerate == InMax > InMin

\* The top of the output range of the mode of the request.
Top == IF Raw THEN 65535 ELSE 255

SpatialKeys == {"start", "space_length", "step", "direction_cosines"}

\* C1: in both handlers, once the voxels are read, a header with dim[0] = 3
\* gives a geometry with order [xspace, yspace, zspace] and no time key, and
\* a header with dim[0] = 4 gives order [time, xspace, yspace, zspace] with a
\* time entry holding only start = 0 and space_length = dim[4]; each spatial
\* axis carries start, space_length, step and direction_cosines; the raw
\* handler returns that geometry as its header.
C1_GeometryByRank ==
    /\ (Rescaled /\ Rank \in {3, 4}) => GeometryBuilt
    /\ GeometryBuilt =>
          /\ Rank \in {3, 4}
          /\ \A ax \in {"xspace", "yspace", "zspace"} :
                 DOMAIN header[ax] = SpatialKeys
          /\ Rank = 3 =>
                 /\ header.order = <<"xspace", "yspace", "zspace">>
                 /\ Len(header.order) = 3
                 /\ "time" \notin DOMAIN header
          /\ Rank = 4 =>
                 /\ header.order = <<"time", "xspace", "yspace", "zspace">>
                 /\ Len(header.order) = 4
                 /\ DOMAIN header.time = {"start", "space_length"}
                 /\ header.time.start = 0
                 /\ header.time.space_length = im.hdr.dim[4]
    /\ (Raw /\ pc = "returned") => (GeometryBuilt /\ im_info.header.json = header)

C1_Witness ==
    /\ Raw /\ pc = "returned" /\ Rank = 4
    /\ im_info.header.json.order[1] = "time"
    /\ im_info.header.json.time.space_length = 2

\* C2: a request on an image whose dim[0] is neither 3 nor 4 ends, in both
\* handlers, with an exception and without a returned value, and the encoded
\* handler has encoded no slice by then.
C2_UnsupportedRankRaises ==
    (Ended /\ Rank \notin {3, 4}) =>
        /\ pc = "raised"
        /\ exc # "none"
        /\ im_info = NoValue
        /\ encoded_data = <<>>

C2_Witness ==
    /\ Encoded /\ Ended /\ Rank = 5
    /\ exc = UnsupportedError
    /\ Rescaled

\* C3 as stated: for an input with max > min the rescaled buffer has minimum
\* 0 and maximum 65535 (raw) or 255 (encoded), every value lies in that range,
\* and so does every element of the data the raw handler returns.
C3_OutputRange ==
    (Rescaled /\ NonDegenerate /\ Rank \in {3, 4}) =>
        /\ SeqMin(data.flat) = 0
        /\ SeqMax(data.flat) = Top
        /\ \A p \in 1..Len(data.flat) : data.flat[p] \in 0..Top
        /\ (Raw /\ pc = "returned") =>
               /\ SeqMin(im_info.data) = 0
               /\ SeqMax(im_info.data) = 65535

\* The exact quotient (v - min) * top / (max - min) of voxel p, as numerator and
\* denominator in unbounded integers.
ExactNum(p) == (im.voxels.flat[p] - InMin) * Top
ExactDen == InMax - InMin

\* r is a nearest integer to n / d (d > 0, n >= 0); either neighbour on a tie.
IsNearest(r, n, d) == 2 * Abs(r * d - n) <= d

\* A difference of two values of dtype dt as the dtype stores it: it is one
\* period off when it leaves the dtype's range.
Stored(dt, x) ==
    IF dt = "float32" THEN x
    ELSE LET m == Pow2(DTypeBits[dt])
             hi == IF DTypeSigned[dt] THEN m \div 2 - 1 ELSE m - 1
             lo == IF DTypeSigned[dt] THEN -(m \div 2) ELSE 0
         IN  IF x > hi THEN x - m ELSE IF x < lo THEN x + m ELSE x

\* The input's range max - min fits its dtype: no difference wraps.
RangeFits == Stored(im.voxels.dtype, InMax - InMin) = InMax - InMin

\* C4 as stated: every rescaled value is the nearest integer to the linear
\* map (either neighbour on a tie).  It is stated here for the supported
\* images of an integer dtype whose range fits that dtype only, where the
\* quotient is exact and the cast is the only step that can miss the nearest.
C4_Original ==
    (Rescaled /\ NonDegenerate /\ Rank \in {3, 4} /\ RangeFits
        /\ ~IsFloat(im.voxels.dtype)) =>
        \A p \in 1..Len(data.flat) : IsNearest(data.flat[p], ExactNum(p), ExactDen)

\* C5 as stated: on a constant volume the rescaling produces no undefined
\* value and the rescaled buffer is all zeros.
C5_ConstantGivesZeros ==
    (Rescaled /\ ~NonDegenerate /\ Rank \in {3, 4}) =>
        /\ \A p \in 1..Len(fdata.flat) : ~IsNaN(fdata.flat[p])
        /\ \A p \in 1..Len(data.flat) : data.flat[p] = 0

\* C6 as stated: rescaling keeps the order of the intensities, the minimum
\* goes to 0 and the maximum to the top of the range.
C6_OrderPreserved ==
    (Rescaled /\ Rank \in {3, 4}) =>
        /\ \A p, q \in 1..Len(data.flat) :
               im.voxels.flat[p] <= im.voxels.flat[q] => data.flat[p] <= data.flat[q]
        /\ NonDegenerate =>
               \A p \in 1..Len(data.flat) :
                   /\ im.voxels.flat[p] = InMin => data.flat[p] = 0
                   /\ im.voxels.flat[p] = InMax => data.flat[p] = Top

\* The nibabel reader gives the voxels of the image of the request.
Readable == im.primary_ok

\* The rescaled plane (y, z) at x = k, time t of a 4D buffer stored as
\* (X, Y, Z, T), in row-major order.
Plane4D(k, t) ==
    LET Y == data.shape[2]
        Z == data.shape[3]
        T == data.shape[4]
    IN  [q \in 1..(Y * Z) |->
            data.flat[((k * Y + ((q - 1) \div Z)) * Z + ((q - 1) % Z)) * T + t + 1]]

\* C7 as stated: for a readable 4D volume (of more than one intensity) the
\* encoded handler returns T*S strings, the one at t*S + k encoding slice k of
\* timepoint t.
C7_TimeMajorSlices ==
    (Encoded /\ Ended /\ Rank = 4 /\ Readable /\ NonDegenerate) =>
        /\ pc = "returned"
        /\ LET S == im.voxels.shape[1]
               T == im.voxels.shape[4]
           IN  /\ Len(im_info.data) = T * S
               /\ \A t \in 0..(T - 1), k \in 0..(S - 1) :
                      /\ im_info.data[t * S + k + 1].b64.format = "JPEG"
                      /\ im_info.data[t * S + k + 1].b64.pixels = Plane4D(k, t)

\* The rescaled plane at index i of the leading axis of a 3D buffer.
Plane3D(i) ==
    LET n == data.shape[2] * data.shape[3]
    IN  [q \in 1..n |-> data.flat[i * n + q]]

\* C8 as stated: for a readable 3D volume (of more than one intensity) the
\* encoded handler returns header and data, data holding one base64 string per
\* slice of the leading axis, element i encoding slice i.
C8_OneStringPerSlice ==
    (Encoded /\ Ended /\ Rank = 3 /\ Readable /\ NonDegenerate) =>
        /\ pc = "returned"
        /\ DOMAIN im_info = {"header", "data"}
        /\ Len(im_info.data) = im.voxels.shape[1]
        /\ \A i \in 1..Len(im_info.data) :
               /\ im_info.data[i].b64.format = "JPEG"
               /\ im_info.data[i].b64.pixels = Plane3D(i - 1)

\* C9: the data the raw handler returns is the rescaled buffer in row-major
\* order: voxel (x, y, z) of a 3D buffer of shape (X, Y, Z) at (x*Y + y)*Z + z,
\* voxel (x, y, z, t) of a 4D buffer stored as (X, Y, Z, T) at
\* ((t*X + x)*Y + y)*Z + z, and the length is the number of voxels.
C9_RawRowMajorTimeFirst ==
    (Raw /\ pc = "returned") =>
        LET X == data.shape[1]
            Y == data.shape[2]
            Z == data.shape[3]
        IN  /\ Rank = 3 =>
                /\ Len(im_info.data) = X * Y * Z
                /\ \A x \in 0..(X - 1), y \in 0..(Y - 1), z \in 0..(Z - 1) :
                       im_info.data[(x * Y + y) * Z + z + 1]
                           = data.flat[(x * Y + y) * Z + z + 1]
            /\ Rank = 4 =>
                LET T == data.shape[4]
                IN  /\ Len(im_info.data) = T * X * Y * Z
                    /\ \A x \in 0..(X - 1), y \in 0..(Y - 1), z \in 0..(Z - 1),
                          t \in 0..(T - 1) :
                           im_info.data[((t * X + x) * Y + y) * Z + z + 1]
                               = data.flat[((x * Y + y) * Z + z) * T + t + 1]

C9_Witness ==
    /\ Raw /\ pc = "returned" /\ Rank = 4
    /\ data.shape = <<2, 2, 2, 2>>
    /\ Len(im_info.data) = 16
    /\ im_info.data # data.flat

\* The stack viewer has answered the request.
Viewed == form.fname = "triplanar-stack-viewer" /\ pc = "returned"

\* The output stream holds a piece of this kind.
Wrote(kind) == \E i \in 1..Len(w) : w[i].kind = kind

WroteJs(text) == \E i \in 1..Len(w) : w[i].kind = "js" /\ w[i].arg = <<text>>

\* The posted file_data has a key outside the three orientations.
HasUnknownKey ==
    \E k \in 1..Len(form.file_data) :
        form.file_data[k].orient \notin {"sagittal", "coronal", "axial"}

\* C10: when file_data has a key outside {sagittal, coronal, axial}, at
\* whatever place among the keys and whatever the other stacks hold, the view
\* writes the error message and writes no viewer container, no triview_data
\* script and no initTriViewGui script.
C10_UnknownKeyRejected ==
    (Viewed /\ HasUnknownKey) =>
        /\ \E i \in 1..Len(w) :
               w[i].kind = "h1" /\ w[i].arg = <<error_message, form.snap_eid>>
        /\ ~Wrote("container")
        /\ ~Wrote("subdiv")
        /\ ~Wrote("canvas")
        /\ ~Wrote("triview_data")
        /\ ~WroteJs("initTriViewGui();")

\* The unknown key comes last, after two valid orientations whose stacks passed
\* the size check.
C10_Witness ==
    /\ Viewed
    /\ Len(form.file_data) = 3
    /\ form.file_data[3].orient = "oblique"
    /\ Len(form.file_data[1].paths) = 2
    /\ DOMAIN shapes = {form.file_data[1].orient, form.file_data[2].orient}
    /\ Wrote("h1")

\* Some list of the posted file_data holds an image whose size is not the size
\* of the first image of that list.
HasMismatch ==
    \E k \in 1..Len(form.file_data) :
        LET paths == form.file_data[k].paths
        IN  \E i \in 1..Len(paths) : Files[paths[i]] # Files[paths[1]]

\* The output stream holds a piece of the viewer: a container, a canvas, the
\* triview_data script (which carries the ajax callback URL) or the script
\* that starts the viewer.
WroteViewer ==
    \/ Wrote("loading-msg") \/ Wrote("container") \/ Wrote("brightness-bar")
    \/ Wrote("subdiv") \/ Wrote("slice-bar") \/ Wrote("canvas")
    \/ Wrote("triview_data")
    \/ WroteJs("initTriViewGui();")

\* C11: when a list of file_data holds an image of another size than the
\* first image of that list, the view returns having written no container,
\* no canvas, no triview_data (and so no ajax callback URL) and no init
\* script, also for the orientations that passed the check before.
C11_MismatchAborts ==
    (Viewed /\ HasMismatch) =>
        /\ ~WroteViewer
        /\ \A i \in 1..Len(w) : w[i].kind \in {"script-src", "stylesheet", "h1",
                                               "script-open", "js", "script-close"}

\* The second orientation holds the odd image, after a first one that passed.
C11_Witness ==
    /\ Viewed /\ ~HasUnknownKey
    /\ Len(form.file_data) = 2
    /\ form.file_data[1].paths = <<"a_png", "a_png">>
    /\ form.file_data[2].paths = <<"b_png", "a_png">>
    /\ form.file_data[1].orient \in DOMAIN shapes
    /\ Wrote("h1")

\* The view wrote the viewer and no error message.
Succeeded ==
    /\ Viewed
    /\ ~Wrote("h1")
    /\ Wrote("container") /\ Wrote("triview_data") /\ WroteJs("initTriViewGui();")

\* The common sizes of the lists of the posted file_data.
ListSizes ==
    {Files[form.file_data[k].paths[1]] :
        k \in {j \in 1..Len(form.file_data) : form.file_data[j].paths # <<>>}}

\* C12: when every key is one of the three orientations and the images of
\* each list have one size, the view succeeds, whether or not the sizes of
\* different lists are the same.
C12_SizesPerOrientation ==
    (Viewed /\ ~HasUnknownKey /\ ~HasMismatch) => Succeeded

\* Three orientations of two images each, not all of one size.
C12_Witness ==
    /\ Succeeded
    /\ Len(form.file_data) = 3
    /\ \A k \in 1..3 : Len(form.file_data[k].paths) = 2
    /\ Cardinality(ListSizes) = 2

\* The list posted for an orientation.
PathsOf(orient) ==
    form.file_data[CHOOSE k \in 1..Len(form.file_data) :
                       form.file_data[k].orient = orient].paths

\* C13: after a successful check, every orientation with images has as its
\* recorded size the size of the first image of its list, every orientation
\* has as its slice count the number of its files minus 1, and the canvas and
\* the slider of each container, and the triview_data script, carry these
\* values: canvas width and height are the size, the slider range is
\* 0..slice count.
C13_RecordedSizeAndCount ==
    Succeeded =>
        /\ \A k \in 1..Len(form.file_data) :
               LET orient == form.file_data[k].orient
                   paths == form.file_data[k].paths
               IN  /\ nb_slices[orient] = Len(paths) - 1
                   /\ paths # <<>> =>
                          /\ shapes[orient] = Files[paths[1]]
                          /\ \E i \in 1..Len(w) :
                                 w[i].kind = "subdiv" /\ w[i].arg = <<orient>>
        /\ \A i \in 1..Len(w) :
               w[i].kind = "subdiv" =>
                   LET paths == PathsOf(w[i].arg[1])
                   IN  /\ w[i + 1].kind = "slice-bar"
                       /\ w[i + 1].arg[1] = 0
                       /\ w[i + 1].arg[2] = Len(paths) - 1
                       /\ w[i + 3].kind = "canvas"
                       /\ w[i + 3].arg = Files[paths[1]]
        /\ \A i \in 1..Len(w) :
               w[i].kind = "triview_data" =>
                   /\ w[i].arg[1].json.shapes = shapes
                   /\ w[i].arg[1].json.nb_slices = nb_slices

\* Two orientations of different sizes and different lengths.
C13_Witness ==
    /\ Succeeded
    /\ Len(form.file_data) = 2
    /\ form.file_data[1].paths = <<"b_png">>
    /\ form.file_data[2].paths = <<"a_png", "a_png">>
    /\ nb_slices[form.file_data[1].orient] = 0
    /\ nb_slices[form.file_data[2].orient] = 1
    /\ shapes[form.file_data[1].orient] = <<32, 48>>
    /\ Wrote("canvas")

\* The image files open after the first n openings and closings.
OpenAfter(n) ==
    Cardinality({i \in 1..n : handles[i].op = "open"})
        - Cardinality({i \in 1..n : handles[i].op = "close"})

\* C14: at every point of the view's run at most one image file is open, each
\* file is closed before the next is opened, and when the view returns, on
\* success, on an unknown key or from inside the with block on a different
\* size, no image file is open.
C14_OneHandleAtATime ==
    /\ \A n \in 0..Len(handles) : OpenAfter(n) \in {0, 1}
    /\ \A n \in 1..Len(handles) :
           handles[n].op = "close" =>
               /\ n > 1
               /\ handles[n - 1] = [op |-> "open", path |-> handles[n].path]
    /\ Viewed =>
           /\ OpenAfter(Len(handles)) = 0
           /\ Len(handles) = 2 * Len(opened)

\* The view returned from inside the with block on the third file it opened.
C14_Witness ==
    /\ Viewed /\ ~HasUnknownKey /\ HasMismatch
    /\ Len(opened) = 3
    /\ Len(handles) = 6
    /\ handles[5] = [op |-> "open", path |-> "b_png"]
    /\ handles[6] = [op |-> "close", path |-> "b_png"]
    /\ Wrote("h1")

\* The last n pieces of the output stream.
LastWritten(n) == SubSeq(w, Len(w) - n + 1, Len(w))

\* C15: a view that rejects its input, for an unknown key or for a different
\* size, ends its output with the message formatted with the posted snap_eid
\* followed by the script that calls disableTriViewBtn(), writes the message
\* once and writes no piece of the viewer; a view that accepts its input
\* writes the viewer and no message.
C15_OneErrorPayload ==
    Viewed =>
        /\ (HasUnknownKey \/ HasMismatch) =>
               /\ Len(w) >= 4
               /\ LastWritten(4) =
                      << [kind |-> "h1", arg |-> <<error_message, form.snap_eid>>],
                         [kind |-> "script-open", arg |-> <<>>],
                         [kind |-> "js", arg |-> <<"disableTriViewBtn();">>],
                         [kind |-> "script-close", arg |-> <<>>] >>
               /\ Cardinality({i \in 1..Len(w) : w[i].kind = "h1"}) = 1
               /\ ~WroteViewer
        /\ ~(HasUnknownKey \/ HasMismatch) => (Succeeded /\ ~Wrote("h1"))
        /\ Wrote("h1") # WroteViewer

\* A rejection for a different size, with the second snap eid.
C15_Witness ==
    /\ Viewed /\ HasMismatch /\ ~HasUnknownKey
    /\ form.snap_eid = "88"
    /\ Len(form.file_data) = 1
    /\ w[Len(w) - 3].arg = <<error_message, "88">>

\* The handler run alone on the file of the two requests.
Alone ==
    IF RawMode THEN RawRun(im, reqs.build)
    ELSE EncodedRun(im, ParseInt(form.dquality), reqs.build)

Tried(rd) == Cardinality({i \in 1..Len(reads) : reads[i] = rd})

\* C17: in the raw handler nibabel is tried first and once; the legacy nifti
\* reader is tried only when nibabel failed to give the voxels, after it, and
\* once; when both fail the handler ends with the exception, returns nothing,
\* has rescaled nothing and has tried no reader again.
C17_LegacyAfterPrimaryOnce ==
    (Raw /\ Ended) =>
        /\ Len(reads) >= 1 /\ reads[1] = "nibabel"
        /\ Tried("nibabel") = 1
        /\ Tried("nifti") <= 1
        /\ Tried("nifti") = 1 <=> ~im.primary_ok
        /\ Len(reads) = Tried("nibabel") + Tried("nifti")
        /\ (~im.primary_ok /\ ~im.legacy_ok) =>
               /\ pc = "raised"
               /\ exc = "nifti: read error"
               /\ im_info = NoValue
               /\ data = NoValue
               /\ reads = <<"nibabel", "nifti">>
        /\ (im.primary_ok \/ im.legacy_ok) => exc # "nifti: read error"

\* Both readers failed on a 3D image.
C17_Witness ==
    /\ Raw /\ pc = "raised"
    /\ ~im.primary_ok /\ ~im.legacy_ok
    /\ reads = <<"nibabel", "nifti">>
    /\ Rank = 3
    /\ im_info = NoValue

\* get_b64_images has answered the request.
Fetched == form.fname = "get_b64_images" /\ pc = "returned"

\* C18: the dictionary get_b64_images returns has the keys of the posted
\* file_data and no other, and under each key a list as long as the posted
\* list whose element i is the base64 encoding of the bytes of the file at
\* position i of the posted list.
C18_SameKeysSameOrder ==
    Fetched =>
        /\ DOMAIN output = {form.file_data[k].orient : k \in 1..Len(form.file_data)}
        /\ \A k \in 1..Len(form.file_data) :
               LET orient == form.file_data[k].orient
                   paths == form.file_data[k].paths
               IN  /\ Len(output[orient]) = Len(paths)
                   /\ \A i \in 1..Len(paths) :
                          output[orient][i] = B64Encode(Contents[paths[i]])

\* Two keys, one of them no orientation, and a list of two different files.
C18_Witness ==
    /\ Fetched
    /\ DOMAIN output = {"oblique", "axial"}
    /\ PathsOf("oblique") = <<"a_png", "b_png">>
    /\ output["oblique"][1] = B64Encode(<<137, 80, 78, 71, 1>>)
    /\ output["oblique"][2] = B64Encode(<<137, 80, 78, 71, 2, 2>>)
    /\ output["axial"] = <<>>

\* The paths of the first n lists of the posted file_data, in order.
RECURSIVE ListedUpTo(_)
ListedUpTo(n) ==
    IF n = 0 THEN <<>> ELSE ListedUpTo(n - 1) \o form.file_data[n].paths

\* List k fails a check: its key is no orientation, or one of its images has
\* another size than its first.
BadKey(k) == form.file_data[k].orient \notin {"sagittal", "coronal", "axial"}
BadSize(k, i) ==
    Files[form.file_data[k].paths[i]] # Files[form.file_data[k].paths[1]]
BadList(k) ==
    BadKey(k) \/ \E i \in 1..Len(form.file_data[k].paths) : BadSize(k, i)

\* The paths up to the first failure: the lists before the first bad one, and
\* of that one, when its key is an orientation, the images up to the first of
\* another size.
ListedUpToFailure ==
    LET k == CHOOSE j \in 1..Len(form.file_data) :
                 BadList(j) /\ \A h \in 1..(j - 1) : ~BadList(h)
        paths == form.file_data[k].paths
    IN  IF BadKey(k) THEN ListedUpTo(k - 1)
        ELSE ListedUpTo(k - 1)
             \o SubSeq(paths, 1, CHOOSE i \in 1..Len(paths) :
                                     BadSize(k, i) /\ \A h \in 1..(i - 1) : ~BadSize(k, h))

\* C19: one run of the view opens the listed files in order, each entry at
\* most once; a run that succeeds has opened every entry once; a run that
\* rejects its input has opened the entries up to the first failure and none
\* after it, and has written the error message once.
C19_OpenedOnceUntilFailure ==
    Viewed =>
        /\ Len(opened) <= Len(ListedUpTo(Len(form.file_data)))
        /\ opened = SubSeq(ListedUpTo(Len(form.file_data)), 1, Len(opened))
        /\ Succeeded => opened = ListedUpTo(Len(form.file_data))
        /\ ~Succeeded =>
               /\ opened = ListedUpToFailure
               /\ Cardinality({i \in 1..Len(w) : w[i].kind = "h1"}) = 1

\* The first list fails on its second image; the two images of the next list
\* are not opened.
C19_Witness ==
    /\ Viewed /\ ~Succeeded /\ ~HasUnknownKey
    /\ Len(form.file_data) = 2
    /\ form.file_data[1].paths = <<"a_png", "b_png">>
    /\ form.file_data[2].paths = <<"b_png", "b_png">>
    /\ opened = <<"a_png", "b_png">>

\* C20 as stated, for the 4D volumes: for a readable 4D volume the encoded
\* handler has encoded every slice of every timepoint, each with the posted
\* dquality as its quality.
C20_QualityOnEverySlice ==
    (Encoded /\ Ended /\ Rank = 4 /\ Readable) =>
        /\ Len(encoded_data) = im.voxels.shape[4] * im.voxels.shape[1]
        /\ \A i \in 1..Len(encoded_data) :
               encoded_data[i].b64.quality = ParseInt(form.dquality)

\* The keys of the posted file_data.
PostedKeys == {form.file_data[k].orient : k \in 1..Len(form.file_data)}

\* C21 as stated: after a successful check, shapes and nb_slices have the
\* keys of the posted file_data and no other, one container is written per
\* posted orientation, every slice count is at least 0 and the initial slider
\* value nb_slices // 2 lies in 0..nb_slices.
C21_KeysAndSliderRange ==
    Succeeded =>
        /\ DOMAIN shapes = PostedKeys
        /\ DOMAIN nb_slices = PostedKeys
        /\ Cardinality({i \in 1..Len(w) : w[i].kind = "subdiv"}) = Cardinality(PostedKeys)
        /\ \A orient \in DOMAIN nb_slices :
               /\ nb_slices[orient] >= 0
               /\ (nb_slices[orient] \div 2) \in 0..nb_slices[orient]

====
